---- MODULE Spec2Model ----
(***************************************************************************)
(* Name-auction state engine (lib/covenants/db.js, class NameDB).          *)
(*                                                                         *)
(* The persisted state is the KV bucket (families a, n, b, r, u, k) and    *)
(* the authenticated trie.  Blocks are verified transaction by             *)
(* transaction against an in-memory view, flushed by saveView and          *)
(* committed by connectBlock; the tip block can be disconnected again.     *)
(*                                                                         *)
(* Auction, the view and the consensus rules live in files that are not    *)
(* part of the sources at hand (./auction, ../coins/coinview, ./rules,     *)
(* ../protocol/consensus); they are modelled from the specification and    *)
(* every such definition is marked "spec-modelled" below.                  *)
(***************************************************************************)
EXTENDS Integers, Sequences, FiniteSets, TLC

(***************************************************************************)
(* Bounds of the model.                                                    *)
(***************************************************************************)
\* inputs and outputs (the larger count of each transaction) that the
\* blocks of a run may hold in total
MaxSlots == 3
\* blocks a run may connect on top of the height it starts from
MaxHeight == 4
\* non-coinbase transactions per block
MaxBlockTxs == 2
\* largest revealed amount
MaxValue == 1
\* inputs and outputs per transaction
MaxIO == 2
\* blocks disconnected over a run
MaxDisconnects == 1
\* how many reveal records a scanned store may hold
MaxReveals == 3

(***************************************************************************)
(* Consensus parameters, scaled down (spec-modelled: rules.js,             *)
(* consensus.js and network.js are not among the sources).  Their order    *)
(* is the real one: MATURITY < RENEWAL_PERIOD < RENEWAL_WINDOW and         *)
(* BIDDING_PERIOD + REVEAL_PERIOD < RENEWAL_WINDOW.                        *)
(***************************************************************************)
ROLLOUT_INTERVAL == 2
BIDDING_PERIOD == 2
REVEAL_PERIOD == 1
COINBASE_MATURITY == 1
RENEWAL_PERIOD == 2
RENEWAL_WINDOW == 4

\* rules.types (spec-modelled), in the order the specification lists them
NONE == 0
BID == 1
REVEAL == 2
REDEEM == 3
UPDATE == 4
TRANSFER == 5
RELEASE == 6
MAX_COVENANT_TYPE == 6
\* a covenant type this version of the rules does not know
FUTURE == 7

\* Auction.states (spec-modelled); the code compares them with > and <=
BIDDING == 0
REVEALING == 1
CLOSED == 2

(***************************************************************************)
(* Hashes, names, outpoints.                                               *)
(***************************************************************************)
Names == {"alice", "bob"}
Data == {"v1", "v2"}
\* the value of a missing argument or item
Undefined == "undefined"

\* blake2b.digest: an injective tag; only byte 0 of a name hash is read
Blake2b(x) == <<"blake2b", x>>

\* nameHash[0]: the first byte of the digest of each name of the model
Byte0(nameHash) == IF nameHash[2] = "alice" THEN 52 ELSE 53

NameHashes == {Blake2b(nm) : nm \in Names}

\* new Outpoint(): the null outpoint (zero hash, index 0xffffffff).  The
\* model checker's integers are 32-bit signed, so the 32-bit index is kept
\* in 31 bits: all ones for the null index, the top bit for the high bit.
NullHash == 0
NullIndex == 2147483647
HighBit == 1073741824
NullOutpoint == <<NullHash, NullIndex>>
Outpoint(hash, index) == <<hash, index>>
IsNull(o) == o = NullOutpoint

\* (i | 0x80000000) >>> 0 for an output index i below the high bit
Synthetic(i) == i + HighBit

\* transaction hashes are 1..MaxSlots; one plain coin funds every transaction
FundingHash == MaxSlots + 1
FundingOutpoint == <<FundingHash, 0>>

(***************************************************************************)
(* Helpers: toU32 / fromU32 / toU64 / fromU64 (little-endian buffers).     *)
(***************************************************************************)
RECURSIVE LEBytes(_, _)
LEBytes(value, n) ==
  IF n = 0 THEN <<>> ELSE <<value % 256>> \o LEBytes(value \div 256, n - 1)

RECURSIVE LEValue(_)
LEValue(data) ==
  IF data = <<>> THEN 0 ELSE data[1] + 256 * LEValue(Tail(data))

RECURSIVE BEBytes(_, _)
BEBytes(value, n) ==
  IF n = 0 THEN <<>> ELSE BEBytes(value \div 256, n - 1) \o <<value % 256>>
fromU32BE(value) == BEBytes(value, 4)
fromU32(value) == LEBytes(value, 4)
toU32(data) == LEValue(data)
fromU64(value) == LEBytes(value, 8)
toU64(data) == LEValue(data)

(***************************************************************************)
(* Partial maps of the KV store.                                           *)
(***************************************************************************)
Has(f, key) == key \in DOMAIN f
Put(f, key, value) ==
  [x \in (DOMAIN f) \cup {key} |-> IF x = key THEN value ELSE f[x]]
Del(f, key) == [x \in (DOMAIN f) \ {key} |-> f[x]]
EmptyMap == [x \in {} |-> 0]

\* the bucket: a, n, r, u, k are maps; b holds empty values, so it is a set
EmptyBucket ==
  [a |-> EmptyMap, n |-> EmptyMap, b |-> {}, r |-> EmptyMap,
   u |-> EmptyMap, k |-> EmptyMap]

(***************************************************************************)
(* Auction (spec-modelled).  Each mutator appends exactly one op.          *)
(***************************************************************************)
Op(type, params) == [type |-> type, params |-> params]

NewAuction(name, nameHash, height) ==
  [name |-> name, nameHash |-> nameHash, owner |-> NullOutpoint,
   height |-> height, renewal |-> height, bids |-> 0, ops |-> <<>>]

\* Auction.toRaw / Auction.fromRaw: the serialized fields (no ops, no hash)
toRaw(auction) ==
  [name |-> auction.name, owner |-> auction.owner, height |-> auction.height,
   renewal |-> auction.renewal, bids |-> auction.bids]
fromRaw(raw, nameHash) ==
  [name |-> raw.name, nameHash |-> nameHash, owner |-> raw.owner,
   height |-> raw.height, renewal |-> raw.renewal, bids |-> raw.bids,
   ops |-> <<>>]

\* Auction.state(height, network)
AuctionState(auction, height) ==
  IF height < auction.height + BIDDING_PERIOD THEN BIDDING
  ELSE IF height < auction.height + BIDDING_PERIOD + REVEAL_PERIOD
       THEN REVEALING
       ELSE CLOSED

Push(auction, type, params) ==
  [auction EXCEPT !.ops = Append(@, Op(type, params))]

addBid(auction, prevout) ==
  Push([auction EXCEPT !.bids = @ + 1], "ADD_BID", <<prevout>>)
removeBid(auction, prevout) ==
  Push([auction EXCEPT !.bids = @ - 1], "REMOVE_BID", <<prevout>>)
addReveal(auction, prevout, value) ==
  Push(auction, "ADD_REVEAL", <<prevout, value>>)
removeReveal(auction, prevout) == Push(auction, "REMOVE_REVEAL", <<prevout>>)
setOwner(auction, owner) ==
  Push([auction EXCEPT !.owner = owner], "ADD_OWNER", <<owner>>)
setNull(auction) ==
  Push([auction EXCEPT !.owner = NullOutpoint], "REMOVE_OWNER",
       <<auction.owner>>)
commit(auction, data) == Push(auction, "COMMIT", <<data>>)
uncommit(auction) == Push(auction, "UNCOMMIT", <<>>)
addUndo(auction, prevout) ==
  Push(auction, "ADD_UNDO", <<prevout, toRaw(auction)>>)
removeUndo(auction, prevout) == Push(auction, "REMOVE_UNDO", <<prevout>>)
addRenewalOfHeight(auction, prevout, height) ==
  Push([auction EXCEPT !.renewal = height], "ADD_RENEWAL", <<prevout, height>>)
addRenewal(auction, prevout, height) ==
  Push([auction EXCEPT !.renewal = height], "ADD_RENEWAL",
       <<prevout, auction.renewal>>)
removeRenewal(auction, prevout) ==
  Push(auction, "REMOVE_RENEWAL", <<prevout>>)
save(auction) == Push(auction, "ADD_AUCTION", <<>>)
remove(auction) == Push(auction, "REMOVE_AUCTION", <<>>)

(***************************************************************************)
(* Reads of the bucket.                                                    *)
(***************************************************************************)
\* pickWinner's "no winner": the JS null, equal to no outpoint
NoOutpoint == <<NullHash, -1>>

\* key order of the r family under one name hash: hash, then index
KeyLess(k1, k2) == k1[2] < k2[2] \/ (k1[2] = k2[2] /\ k1[3] < k2[3])
FirstKey(keys) == CHOOSE k \in keys : \A o \in keys \ {k} : KeyLess(k, o)

\* the body of iter.each in pickWinner, one key after the other
ScanTestGreater(bid, best) == bid > best
ScanTest(bid, best) == bid >= best
RECURSIVE ScanReveals(_, _, _, _)
ScanReveals(r, keys, best, winner) ==
  IF keys = {} THEN winner
  ELSE LET key == FirstKey(keys)
           bid == toU64(r[key])
       IN IF ScanTest(bid, best)
          THEN ScanReveals(r, keys \ {key}, bid, Outpoint(key[2], key[3]))
          ELSE ScanReveals(r, keys \ {key}, best, winner)

pickWinner(bucket, nameHash) ==
  ScanReveals(bucket.r, {key \in DOMAIN bucket.r : key[1] = nameHash},
              0, NoOutpoint)

(***************************************************************************)
(* The view (spec-modelled): the auctions touched by the block, in the     *)
(* order they were first touched.  Each lookup returns the view (with the  *)
(* auction loaded on first touch) and the auction's position, 0 for null.  *)
(***************************************************************************)
Find(view, nameHash) ==
  IF \E j \in 1..Len(view) : view[j].nameHash = nameHash
  THEN CHOOSE j \in 1..Len(view) : view[j].nameHash = nameHash
  ELSE 0

\* view.getAuction(db, nameHash), over NameDB.getAuction
viewGetAuction(bucket, view, nameHash) ==
  LET j == Find(view, nameHash) IN
  IF j > 0 THEN [idx |-> j, view |-> view]
  ELSE IF Has(bucket.a, nameHash)
       THEN [idx |-> Len(view) + 1,
             view |-> Append(view, fromRaw(bucket.a[nameHash], nameHash))]
       ELSE [idx |-> 0, view |-> view]

\* view.getAuctionFor(db, prevout), over NameDB.getAuctionHash
viewGetAuctionFor(bucket, view, prevout) ==
  IF ~Has(bucket.n, prevout) THEN [idx |-> 0, view |-> view]
  ELSE viewGetAuction(bucket, view, bucket.n[prevout])

\* view.ensureAuction(db, name, nameHash, height)
viewEnsureAuction(bucket, view, name, nameHash, height) ==
  LET got == viewGetAuction(bucket, view, nameHash) IN
  IF got.idx > 0 THEN got
  ELSE [idx |-> Len(view) + 1,
        view |-> Append(view, NewAuction(name, nameHash, height))]

\* NameDB.getUndo: the stored snapshot, with its name hash recomputed
getUndo(bucket, prevout) == fromRaw(bucket.u[prevout], Blake2b(bucket.u[prevout].name))

\* NameDB.getUndoRenewal of a stored record
getUndoRenewal(bucket, prevout) == toU32(bucket.k[prevout])

(***************************************************************************)
(* saveView / saveAuction: the op log replayed into the bucket and trie.   *)
(* A flush state is [bucket, trie, fault].                                 *)
(***************************************************************************)
\* case types.REMOVE_BID: the bid key and its reverse entry are deleted
RemoveBidKeeping(bk, nameHash, o) ==
  [bk EXCEPT !.b = @ \ {<<nameHash, o[1], o[2]>>}]
RemoveBid(bk, nameHash, o) ==
  [bk EXCEPT !.b = @ \ {<<nameHash, o[1], o[2]>>}, !.n = Del(@, o)]

\* one arm of the switch in saveAuction
ApplyOp(fs, auction, op) ==
  LET nameHash == auction.nameHash
      bk == fs.bucket
      p == op.params
  IN CASE op.type = "ADD_AUCTION" ->
            [fs EXCEPT !.bucket.a = Put(bk.a, nameHash, toRaw(auction))]
       [] op.type = "REMOVE_AUCTION" ->
            [fs EXCEPT !.bucket.a = Del(bk.a, nameHash)]
       [] op.type = "ADD_BID" ->
            [fs EXCEPT !.bucket.b = bk.b \cup {<<nameHash, p[1][1], p[1][2]>>},
                       !.bucket.n = Put(bk.n, p[1], nameHash)]
       [] op.type = "REMOVE_BID" ->
            [fs EXCEPT !.bucket = RemoveBid(bk, nameHash, p[1])]
       [] op.type = "ADD_REVEAL" ->
            [fs EXCEPT !.bucket.r =
                         Put(bk.r, <<nameHash, p[1][1], p[1][2]>>, fromU64(p[2])),
                       !.bucket.n = Put(bk.n, p[1], nameHash)]
       [] op.type = "REMOVE_REVEAL" ->
            [fs EXCEPT !.bucket.r = Del(bk.r, <<nameHash, p[1][1], p[1][2]>>),
                       !.bucket.n = Del(bk.n, p[1])]
       [] op.type = "ADD_OWNER" ->
            [fs EXCEPT !.bucket.n = Put(bk.n, p[1], nameHash)]
       [] op.type = "REMOVE_OWNER" ->
            [fs EXCEPT !.bucket.n = Del(bk.n, p[1])]
       [] op.type = "COMMIT" ->
            \* blake2b.digest of a missing argument throws
            IF p[1] = Undefined THEN [fs EXCEPT !.fault = TRUE]
            ELSE [fs EXCEPT !.trie = Put(fs.trie, nameHash, Blake2b(p[1]))]
       [] op.type = "UNCOMMIT" ->
            [fs EXCEPT !.trie = Del(fs.trie, nameHash)]
       [] op.type = "ADD_UNDO" ->
            [fs EXCEPT !.bucket.u = Put(bk.u, p[1], p[2])]
       [] op.type = "REMOVE_UNDO" ->
            [fs EXCEPT !.bucket.u = Del(bk.u, p[1])]
       [] op.type = "ADD_RENEWAL" ->
            [fs EXCEPT !.bucket.k = Put(bk.k, p[1], fromU32(p[2]))]
       [] op.type = "REMOVE_RENEWAL" ->
            [fs EXCEPT !.bucket.k = Del(bk.k, p[1])]

RECURSIVE ApplyOps(_, _, _)
ApplyOps(fs, auction, j) ==
  IF fs.fault \/ j > Len(auction.ops) THEN fs
  ELSE ApplyOps(ApplyOp(fs, auction, auction.ops[j]), auction, j + 1)

saveAuction(fs, auction) == ApplyOps(fs, auction, 1)

RECURSIVE saveView(_, _, _)
saveView(fs, view, j) ==
  IF fs.fault \/ j > Len(view) THEN fs
  ELSE saveView(saveAuction(fs, view[j]), view, j + 1)

(***************************************************************************)
(* Transactions.  An output is [value, covenant]; a covenant is            *)
(* [type, items]: items[1] is the name, items[2] the record data of an     *)
(* UPDATE, items[3] the block a renewal commits to.  JS indices are one    *)
(* less: input i of the model is tx.inputs[i - 1].                         *)
(***************************************************************************)
Covenant(type, items) == [type |-> type, items |-> items]
Output(value, covenant) == [value |-> value, covenant |-> covenant]

\* chaindb.getEntry / chaindb.isMainChain of the block an item names
\* (the chain database is an outside collaborator: its answers are inputs)
BlockRef(known, main, height) ==
  [known |-> known, main |-> main, height |-> height]

\* what one step of a loop of connectCovenants returns: the outcome, the
\* view, the line that returned, and the loop and index it happened at
Step(res, view, site) ==
  [res |-> res, view |-> view, site |-> site, loop |-> "", at |-> 0]

\* the renewal checks of update -> update; "" when they all pass
RenewalMatureStrict(entryHeight, height) ==
  ~(entryHeight >= height - COINBASE_MATURITY)
RenewalMature(entryHeight, height) ==
  ~(entryHeight > height - COINBASE_MATURITY)
RenewalRecent(entryHeight, height) ==
  ~(entryHeight < height - RENEWAL_PERIOD)
RenewalCheck(entry, height) ==
  IF ~entry.known THEN "L437"
  ELSE IF ~entry.main THEN "L441"
  ELSE IF ~RenewalMature(entry.height, height) THEN "L445"
  ELSE IF ~RenewalRecent(entry.height, height) THEN "L450"
  ELSE ""

\* update -> release and transfer -> release: the same four calls
ReleaseKeepingRecord(auction, prevout) ==
  save(setNull(addUndo(auction, prevout)))
Release(auction, prevout) ==
  uncommit(save(setNull(addUndo(auction, prevout))))

\* a bid can be revealed until the reveal phase is over
RevealTooLateNever(auction, height) == AuctionState(auction, height) > CLOSED
RevealTooLate(auction, height) == AuctionState(auction, height) > REVEALING

\* uc.type === types.BID
ConnectBid(view, bucket, height, prevout, hasOutput, output, outpoint) ==
  LET got == viewGetAuctionFor(bucket, view, prevout)
      v == got.view
      j == got.idx
  IN IF ~hasOutput THEN Step("fault", v, "L308")
     ELSE IF j = 0 THEN Step("fault", v, "L309")
     ELSE IF RevealTooLate(v[j], height) THEN Step("false", v, "L312")
     ELSE IF output.covenant.type = REVEAL
          THEN Step("continue",
                    [v EXCEPT ![j] =
                       save(addReveal(removeBid(@, prevout), outpoint,
                                      output.value))],
                    "")
          ELSE Step("fault", v, "L323")

\* uc.type === types.REVEAL
ConnectReveal(view, bucket, height, prevout, hasOutput, output, outpoint) ==
  LET got == viewGetAuctionFor(bucket, view, prevout)
      v == got.view
      j == got.idx
  IN IF ~hasOutput THEN Step("fault", v, "L334")
     ELSE IF j = 0 THEN Step("fault", v, "L335")
     ELSE IF AuctionState(v[j], height) # CLOSED THEN Step("false", v, "L338")
     ELSE
       LET winner == IF IsNull(v[j].owner)
                     THEN pickWinner(bucket, v[j].nameHash)
                     ELSE v[j].owner
           type == output.covenant.type
       IN CASE type = REDEEM ->
                 IF prevout = winner THEN Step("false", v, "L351")
                 ELSE Step("continue",
                           [v EXCEPT ![j] = removeReveal(@, prevout)], "")
            [] type = UPDATE ->
                 IF prevout # winner THEN Step("false", v, "L360")
                 ELSE Step("continue",
                        [v EXCEPT ![j] =
                           save(commit(
                             [setOwner(removeReveal(@, prevout), outpoint)
                                EXCEPT !.renewal = height],
                             output.covenant.items[2]))],
                        "")
            [] type = TRANSFER ->
                 IF prevout # winner THEN Step("false", v, "L378")
                 ELSE Step("continue",
                        [v EXCEPT ![j] =
                           save([setOwner(removeReveal(@, prevout), outpoint)
                                   EXCEPT !.renewal = height])],
                        "")
            [] type = RELEASE ->
                 IF prevout # winner THEN Step("false", v, "L395")
                 ELSE Step("continue",
                        [v EXCEPT ![j] =
                           setNull(addUndo(removeReveal(@, prevout), prevout))],
                        "")
            [] OTHER -> Step("fault", v, "L404")

\* uc.type === types.UPDATE
ConnectUpdate(view, bucket, height, prevout, hasOutput, output, outpoint) ==
  LET got == viewGetAuctionFor(bucket, view, prevout)
      v == got.view
      j == got.idx
  IN IF ~hasOutput THEN Step("fault", v, "L415")
     ELSE IF j = 0 THEN Step("fault", v, "L416")
     ELSE IF AuctionState(v[j], height) # CLOSED THEN Step("false", v, "L419")
     ELSE IF prevout # v[j].owner THEN Step("false", v, "L423")
     ELSE
       LET type == output.covenant.type
           items == output.covenant.items
       IN CASE type = UPDATE ->
                 LET a1 == commit(setOwner(v[j], outpoint), items[2])
                     bad == IF Len(items) = 3
                            THEN RenewalCheck(items[3], height) ELSE ""
                     a2 == IF Len(items) = 3
                           THEN addRenewal(a1, prevout, height) ELSE a1
                 IN IF bad # ""
                    THEN Step("false", [v EXCEPT ![j] = a1], bad)
                    \* no break: falls through into the empty transfer arm
                    ELSE Step("continue", [v EXCEPT ![j] = save(a2)], "")
            [] type = TRANSFER -> Step("continue", v, "")
            [] type = RELEASE ->
                 Step("continue", [v EXCEPT ![j] = Release(@, prevout)], "")
            [] OTHER -> Step("fault", v, "L472")

\* uc.type === types.TRANSFER
ConnectTransfer(view, bucket, height, prevout, hasOutput, output, outpoint) ==
  LET got == viewGetAuctionFor(bucket, view, prevout)
      v == got.view
      j == got.idx
  IN IF ~hasOutput THEN Step("fault", v, "L483")
     ELSE IF j = 0 THEN Step("fault", v, "L484")
     ELSE IF AuctionState(v[j], height) # CLOSED THEN Step("false", v, "L487")
     ELSE IF prevout # v[j].owner THEN Step("false", v, "L491")
     ELSE
       LET type == output.covenant.type
           items == output.covenant.items
       IN CASE type = UPDATE ->
                 Step("continue",
                      [v EXCEPT ![j] =
                         save(commit(setOwner(@, outpoint), items[2]))],
                      "")
            [] type = RELEASE ->
                 Step("continue", [v EXCEPT ![j] = Release(@, prevout)], "")
            [] OTHER -> Step("fault", v, "L510")

\* the body of the input loop of connectCovenants, for input i
ConnectInput(tx, height, i, view, bucket, coins) ==
  LET prevout == tx.inputs[i]
      uc == coins[prevout].covenant
      hasOutput == i <= Len(tx.outputs)
      output == IF hasOutput THEN tx.outputs[i] ELSE Output(0, Covenant(NONE, <<>>))
      outpoint == Outpoint(tx.hash, i - 1)
  IN CASE uc.type = NONE -> Step("continue", view, "")
       [] uc.type = BID ->
            ConnectBid(view, bucket, height, prevout, hasOutput, output, outpoint)
       [] uc.type = REVEAL ->
            ConnectReveal(view, bucket, height, prevout, hasOutput, output, outpoint)
       [] uc.type = UPDATE ->
            ConnectUpdate(view, bucket, height, prevout, hasOutput, output, outpoint)
       [] uc.type = TRANSFER ->
            ConnectTransfer(view, bucket, height, prevout, hasOutput, output, outpoint)
       [] OTHER ->
            \* Should not be a release.
            IF uc.type > MAX_COVENANT_TYPE THEN Step("continue", view, "")
            ELSE Step("fault", view, "L519")

\* the rollout gate: names are released weekly on the main network
RolloutStartOfByte(nameHash) == Byte0(nameHash) * ROLLOUT_INTERVAL
RolloutStart(nameHash) == (Byte0(nameHash) % 52) * ROLLOUT_INTERVAL
RolloutClosed(network, nameHash, height) ==
  network = "main" /\ height < RolloutStart(nameHash)

\* "If we haven't been renewed in a year, start over."
IsStale(auction, height) == height >= auction.renewal + RENEWAL_WINDOW

\* the body of the output loop of connectCovenants, for output i
ConnectOutput(tx, height, i, view, bucket, network) ==
  LET covenant == tx.outputs[i].covenant IN
  IF covenant.type # BID THEN Step("continue", view, "")
  ELSE
    LET name == covenant.items[1]
        nameHash == Blake2b(name)
        outpoint == Outpoint(tx.hash, i - 1)
    IN IF RolloutClosed(network, nameHash, height)
       THEN Step("false", view, "L537")
       ELSE
         LET got == viewEnsureAuction(bucket, view, name, nameHash, height)
             v == got.view
             j == got.idx
             prevout == Outpoint(tx.hash, Synthetic(i - 1))
             reset == uncommit(
                        [setOwner(addUndo(v[j], prevout), NullOutpoint)
                           EXCEPT !.height = height, !.renewal = height,
                                  !.bids = 0])
             a1 == IF IsStale(v[j], height) THEN reset ELSE v[j]
         IN IF IsStale(v[j], height) /\ IsNull(v[j].owner)
            THEN Step("fault", v, "L548")
            ELSE IF AuctionState(a1, height) # BIDDING
                 THEN Step("false", [v EXCEPT ![j] = a1], "L558")
                 ELSE Step("continue",
                           [v EXCEPT ![j] = save(addBid(a1, outpoint))], "")

RECURSIVE ConnectInputs(_, _, _, _, _, _)
ConnectInputs(tx, height, i, view, bucket, coins) ==
  IF i > Len(tx.inputs) THEN Step("continue", view, "")
  ELSE LET st == ConnectInput(tx, height, i, view, bucket, coins) IN
       IF st.res # "continue" THEN [st EXCEPT !.loop = "inputs", !.at = i]
       ELSE ConnectInputs(tx, height, i + 1, st.view, bucket, coins)

RECURSIVE ConnectOutputs(_, _, _, _, _, _)
ConnectOutputs(tx, height, i, view, bucket, network) ==
  IF i > Len(tx.outputs) THEN Step("true", view, "L567")
  ELSE LET st == ConnectOutput(tx, height, i, view, bucket, network) IN
       IF st.res # "continue" THEN [st EXCEPT !.loop = "outputs", !.at = i]
       ELSE ConnectOutputs(tx, height, i + 1, st.view, bucket, network)

\* connectCovenants(tx, height, view): "true", "false" or "fault" (a failed
\* assertion), the view as it leaves it, and the line that returned
connectCovenants(tx, height, view, bucket, coins, network) ==
  IF tx.coinbase THEN Step("true", view, "L281")
  ELSE LET st == ConnectInputs(tx, height, 1, view, bucket, coins) IN
       IF st.res # "continue" THEN st
       ELSE ConnectOutputs(tx, height, 1, st.view, bucket, network)

(***************************************************************************)
(* disconnectCovenants: outputs in reverse order, then inputs in reverse   *)
(* order.  It returns nothing: a step either continues or faults.          *)
(***************************************************************************)
\* the body of the output loop of disconnectCovenants, for output i
DisconnectOutput(tx, height, i, view, bucket) ==
  LET covenant == tx.outputs[i].covenant IN
  IF covenant.type # BID THEN Step("continue", view, "")
  ELSE
    LET outpoint == Outpoint(tx.hash, i - 1)
        nameHash == Blake2b(covenant.items[1])
        got == viewGetAuction(bucket, view, nameHash)
        v == got.view
        j == got.idx
        prevout == Outpoint(tx.hash, Synthetic(i - 1))
    IN IF j = 0 \/ v[j].height # height THEN Step("fault", v, "L593")
       ELSE IF AuctionState(v[j], height) # BIDDING THEN Step("fault", v, "L594")
       ELSE
         LET a1 == removeBid(v[j], outpoint) IN
         IF a1.bids = 0
         THEN IF Has(bucket.u, prevout)
              THEN LET undo == getUndo(bucket, prevout) IN
                   Step("continue",
                        [v EXCEPT ![j] =
                           save(commit(
                             [setOwner(removeUndo(a1, prevout), undo.owner)
                                EXCEPT !.height = undo.height,
                                       !.renewal = undo.renewal,
                                       !.bids = undo.bids],
                             Undefined))],
                        "")
              ELSE Step("continue", [v EXCEPT ![j] = remove(a1)], "")
         ELSE Step("continue", [v EXCEPT ![j] = save(a1)], "")

\* uc.type === types.BID
DisconnectBid(view, bucket, height, prevout, hasOutput, output, outpoint) ==
  LET got == viewGetAuctionFor(bucket, view, prevout)
      v == got.view
      j == got.idx
  IN IF ~hasOutput THEN Step("fault", v, "L642")
     ELSE IF j = 0 THEN Step("fault", v, "L643")
     ELSE IF ~(AuctionState(v[j], height) <= REVEALING)
          THEN Step("fault", v, "L644")
     ELSE IF output.covenant.type = REVEAL
          THEN Step("continue", [v EXCEPT ![j] = removeReveal(@, outpoint)], "")
          ELSE Step("fault", v, "L653")

\* uc.type === types.REVEAL
DisconnectReveal(view, bucket, height, prevout, coin, hasOutput, output, outpoint) ==
  LET got == viewGetAuctionFor(bucket, view, prevout)
      v == got.view
      j == got.idx
  IN IF ~hasOutput THEN Step("fault", v, "L664")
     ELSE IF j = 0 THEN Step("fault", v, "L665")
     ELSE
       LET type == output.covenant.type
           closed == AuctionState(v[j], height) = CLOSED
       IN CASE type = REDEEM ->
                 IF ~closed THEN Step("fault", v, "L670")
                 ELSE IF v[j].owner = outpoint THEN Step("fault", v, "L671")
                 ELSE Step("continue",
                           [v EXCEPT ![j] = addReveal(@, prevout, coin.value)],
                           "")
            [] type = UPDATE ->
                 IF ~closed THEN Step("fault", v, "L677")
                 ELSE IF v[j].owner # outpoint THEN Step("fault", v, "L678")
                 ELSE Step("continue",
                        [v EXCEPT ![j] =
                           save(uncommit(
                             [setOwner(addReveal(@, prevout, coin.value),
                                       NullOutpoint)
                                EXCEPT !.renewal = v[j].height]))],
                        "")
            [] type = TRANSFER ->
                 IF ~closed THEN Step("fault", v, "L688")
                 ELSE IF v[j].owner # outpoint THEN Step("fault", v, "L689")
                 ELSE Step("continue",
                        [v EXCEPT ![j] =
                           save([setOwner(addReveal(@, prevout, coin.value),
                                          NullOutpoint)
                                   EXCEPT !.renewal = v[j].height])],
                        "")
            [] type = RELEASE ->
                 IF ~IsNull(v[j].owner) THEN Step("fault", v, "L698")
                 \* undo.height of a missing undo record is a TypeError
                 ELSE IF ~Has(bucket.u, prevout) THEN Step("fault", v, "L703")
                 ELSE LET undo == getUndo(bucket, prevout) IN
                      Step("continue",
                        [v EXCEPT ![j] =
                           save([addReveal(removeUndo(@, prevout), prevout,
                                           coin.value)
                                   EXCEPT !.height = undo.height,
                                          !.renewal = undo.renewal])],
                        "")
            [] OTHER -> Step("fault", v, "L709")

\* uc.type === types.UPDATE
DisconnectUpdate(view, bucket, height, prevout, uc, hasOutput, output, outpoint) ==
  LET got == viewGetAuctionFor(bucket, view, prevout)
      v == got.view
      j == got.idx
  IN IF ~hasOutput THEN Step("fault", v, "L720")
     ELSE IF j = 0 THEN Step("fault", v, "L721")
     ELSE IF AuctionState(v[j], height) # CLOSED THEN Step("fault", v, "L722")
     ELSE
       LET type == output.covenant.type IN
       CASE type = UPDATE ->
              IF v[j].owner # outpoint THEN Step("fault", v, "L728")
              ELSE
                LET a1 == commit(setOwner(v[j], prevout), uc.items[2])
                    \* a missing k record reads as null, which passes
                    \* assert(undo !== -1) and is stored as renewal 0
                    undo == IF Has(bucket.k, prevout)
                            THEN getUndoRenewal(bucket, prevout) ELSE 0
                    a2 == IF Len(uc.items) = 3
                          THEN [removeRenewal(a1, prevout)
                                  EXCEPT !.renewal = undo]
                          ELSE a1
                IN Step("continue", [v EXCEPT ![j] = save(a2)], "")
         [] type = TRANSFER -> Step("continue", v, "")
         [] type = RELEASE ->
              IF ~Has(bucket.u, prevout) THEN Step("fault", v, "L753")
              ELSE IF ~IsNull(v[j].owner) THEN Step("fault", v, "L754")
              ELSE LET undo == getUndo(bucket, prevout) IN
                   Step("continue",
                     [v EXCEPT ![j] =
                        save([commit(setOwner(removeUndo(@, prevout), prevout),
                                     uc.items[2])
                                EXCEPT !.height = undo.height,
                                       !.renewal = undo.renewal])],
                     "")
         [] OTHER -> Step("fault", v, "L766")

\* the body of the input loop of disconnectCovenants, for input i
DisconnectInput(tx, height, i, view, bucket, coins) ==
  LET prevout == tx.inputs[i]
      coin == coins[prevout]
      uc == coin.covenant
      hasOutput == i <= Len(tx.outputs)
      output == IF hasOutput THEN tx.outputs[i] ELSE Output(0, Covenant(NONE, <<>>))
      outpoint == Outpoint(tx.hash, i - 1)
  IN CASE uc.type = NONE -> Step("continue", view, "")
       [] uc.type = BID ->
            DisconnectBid(view, bucket, height, prevout, hasOutput, output,
                          outpoint)
       [] uc.type = REVEAL ->
            DisconnectReveal(view, bucket, height, prevout, coin, hasOutput,
                             output, outpoint)
       [] uc.type = UPDATE ->
            DisconnectUpdate(view, bucket, height, prevout, uc, hasOutput,
                             output, outpoint)
       [] OTHER ->
            \* Should not be a release.
            IF uc.type > MAX_COVENANT_TYPE THEN Step("continue", view, "")
            ELSE Step("fault", view, "L775")

RECURSIVE DisconnectOutputs(_, _, _, _, _)
DisconnectOutputs(tx, height, i, view, bucket) ==
  IF i < 1 THEN Step("continue", view, "")
  ELSE LET st == DisconnectOutput(tx, height, i, view, bucket) IN
       IF st.res # "continue" THEN st
       ELSE DisconnectOutputs(tx, height, i - 1, st.view, bucket)

RECURSIVE DisconnectInputs(_, _, _, _, _, _)
DisconnectInputs(tx, height, i, view, bucket, coins) ==
  IF i < 1 THEN Step("ok", view, "L777")
  ELSE LET st == DisconnectInput(tx, height, i, view, bucket, coins) IN
       IF st.res # "continue" THEN st
       ELSE DisconnectInputs(tx, height, i - 1, st.view, bucket, coins)

\* disconnectCovenants(tx, height, view): "ok" or "fault"
disconnectCovenants(tx, height, view, bucket, coins) ==
  LET st == DisconnectOutputs(tx, height, Len(tx.outputs), view, bucket) IN
  IF st.res # "continue" THEN st
  ELSE DisconnectInputs(tx, height, Len(tx.inputs), st.view, bucket, coins)

\* disconnectBlock(entry, block, view): the block's transactions in block
\* order, the coinbase (txs[1] here) left out
RECURSIVE disconnectBlock(_, _, _, _, _, _)
disconnectBlock(txs, height, i, view, bucket, coins) ==
  IF i > Len(txs) THEN Step("ok", view, "L577")
  ELSE LET st == disconnectCovenants(txs[i], height, view, bucket, coins) IN
       IF st.res # "ok" THEN st
       ELSE disconnectBlock(txs, height, i + 1, st.view, bucket, coins)

(***************************************************************************)
(* The validator around the engine.                                        *)
(***************************************************************************)
VARIABLES
  network,   \* this.network.type
  bucket,    \* this.bucket: the KV families a, n, b, r, u, k
  trie,      \* this.trie: nameHash -> digest of the record; its root
  chain,     \* the connected blocks, chain[h] the block at height h
  pc,        \* where the validator is with the block in hand
  cur,       \* the block in hand: header root, transactions, state before it
  view,      \* the view of the block in hand
  ret,       \* what the last call of the engine returned, and where
  base,      \* the height the run starts from
  used,      \* how many slots the blocks connected so far have used
  undone,    \* how many blocks have been disconnected
  s0,        \* the persisted state before the block last connected
  last,      \* "connected" right after a block connected, "undone" right
             \* after that same block was disconnected again, "stuck" when
             \* that disconnect faulted, "undoing" in between, else "none"
  picked     \* the calls of pickWinner made on the store as it stands: each
             \* <<nameHash, outpoint returned>>

vars ==
  <<network, bucket, trie, chain, pc, cur, view, ret, base, used, undone, s0,
    last, picked>>

CoinbaseTx ==
  [hash |-> NullHash, coinbase |-> TRUE, inputs |-> <<>>, outputs |-> <<>>]
Tx(hash, inputs, outputs) ==
  [hash |-> hash, coinbase |-> FALSE, inputs |-> inputs, outputs |-> outputs]

Persisted == [bucket |-> bucket, trie |-> trie]
NoBlock == [trieRoot |-> EmptyMap, txs |-> <<>>, pre |-> [bucket |-> EmptyBucket, trie |-> EmptyMap]]

\* this.trie.hash('hex'): the root stands for the content it commits to
getTrieRoot == trie

\* every transaction of the chain and of the block in hand, in order
RECURSIVE Flatten(_)
Flatten(blocks) ==
  IF blocks = <<>> THEN <<>>
  ELSE SelectSeq(blocks[1].txs, LAMBDA t : ~t.coinbase) \o Flatten(Tail(blocks))
TxsOf(blocks, block) == Flatten(blocks) \o SelectSeq(block.txs, LAMBDA t : ~t.coinbase)

\* view.getOutput: the coin view of the chain database (an outside
\* collaborator): every output created so far, and two coins that are
\* always there, one without covenant and one of a later covenant type
FutureOutpoint == <<FundingHash, 1>>
CoinKeys(txs) ==
  {FundingOutpoint, FutureOutpoint} \cup
  UNION {{Outpoint(txs[t].hash, i - 1) : i \in 1..Len(txs[t].outputs)} :
         t \in 1..Len(txs)}
CoinView(txs) ==
  [o \in CoinKeys(txs) |->
     IF o = FundingOutpoint THEN Output(0, Covenant(NONE, <<>>))
     ELSE IF o = FutureOutpoint THEN Output(0, Covenant(FUTURE, <<>>))
     ELSE LET t == CHOOSE t \in 1..Len(txs) : txs[t].hash = o[1]
          IN txs[t].outputs[o[2] + 1]]
Spent(txs) ==
  UNION {{txs[t].inputs[i] : i \in 1..Len(txs[t].inputs)} : t \in 1..Len(txs)}
Unspent(txs) ==
  (CoinKeys(txs) \ Spent(txs)) \cup {FundingOutpoint, FutureOutpoint}

(***************************************************************************)
(* The transactions offered to the validator.  A covenant output other     *)
(* than a BID stands at the index of an input that carries a covenant;     *)
(* every other pairing of prior and output covenant is offered.            *)
(***************************************************************************)
\* blocks a renewal may name: unknown, on a side chain, or on the main
\* chain at one of the heights around the two limits
RenewalRefs(height) ==
  {BlockRef(FALSE, FALSE, 0)} \cup
  {BlockRef(TRUE, FALSE, height - COINBASE_MATURITY)} \cup
  {BlockRef(TRUE, TRUE, e) :
     e \in {x \in (height - RENEWAL_PERIOD - 1)..height : x >= 0}}

PlainOutput == Output(0, Covenant(NONE, <<>>))
BidOutputs == {Output(0, Covenant(BID, <<nm>>)) : nm \in Names}
LinkedOutputs(name, height) ==
  {Output(v, Covenant(REVEAL, <<name>>)) : v \in 0..MaxValue} \cup
  {Output(0, Covenant(t, <<name>>)) : t \in {REDEEM, TRANSFER, RELEASE}} \cup
  {Output(0, Covenant(UPDATE, <<name, d>>)) : d \in Data} \cup
  {Output(0, Covenant(UPDATE, <<name, "v1", ref>>)) :
     ref \in RenewalRefs(height)}

\* the outputs that may stand at the index of an input spending `coin`
SlotOutputs(coin, height) ==
  {PlainOutput} \cup BidOutputs \cup
  (IF coin.covenant.type \in {NONE, FUTURE} THEN {}
   ELSE LinkedOutputs(coin.covenant.items[1], height))

Distinct(seq) == \A i, j \in 1..Len(seq) : i # j => seq[i] # seq[j]

\* the output sequences of length n that may follow the inputs `ins`
RECURSIVE OutputSeqs(_, _, _, _)
OutputSeqs(ins, coins, height, n) ==
  IF n = 0 THEN {<<>>}
  ELSE {Append(prefix, o) :
          prefix \in OutputSeqs(ins, coins, height, n - 1),
          o \in (IF n <= Len(ins) THEN SlotOutputs(coins[ins[n]], height)
                 ELSE BidOutputs \cup {PlainOutput})}

\* the input sequences: coins that carry a covenant and the funding coin
\* (spending an output without covenant is spending the funding coin; the
\* coin of a later covenant type is spent by a second or later input)
InputSeqs(coins, unspent, n) ==
  LET spendable == {o \in unspent : o = FundingOutpoint
                                    \/ coins[o].covenant.type # NONE}
  IN {x \in UNION {[1..k -> spendable] : k \in 1..n} :
        Distinct(x) /\ x[1] # FutureOutpoint}

Slots(tx) == IF Len(tx.inputs) > Len(tx.outputs)
             THEN Len(tx.inputs) ELSE Len(tx.outputs)

\* a transaction worth offering: some covenant in it, and no output
\* without covenant at its end (such an output changes nothing)
Offered(tx, coins) ==
  /\ \/ \E i \in 1..Len(tx.inputs) : coins[tx.inputs[i]].covenant.type # NONE
     \/ \E i \in 1..Len(tx.outputs) : tx.outputs[i].covenant.type # NONE
  /\ Len(tx.outputs) > Len(tx.inputs)
       => tx.outputs[Len(tx.outputs)] # PlainOutput

\* the transactions with hash `hash` of at most `room` slots
TxChoices(hash, coins, unspent, height, room) ==
  LET maxIO == IF room < MaxIO THEN room ELSE MaxIO IN
  {tx \in UNION {
       UNION {{Tx(hash, ins, outs) :
                 outs \in OutputSeqs(ins, coins, height, n)} :
              n \in 0..maxIO} :
       ins \in InputSeqs(coins, unspent, maxIO)} :
     Offered(tx, coins)}

\* what ret keeps of a call of connectCovenants: the outcome, the line, and
\* for a call that did not return true the input or output it stopped at
\* (with the outpoint that input spends)
NoSlot == [loop |-> "", at |-> 0, uc |-> NONE, paired |-> FALSE,
           output |-> PlainOutput, prevout |-> NullOutpoint]
Ret(res, site) == [res |-> res, site |-> site, slot |-> NoSlot]
SlotOf(tx, coins, st) ==
  IF st.loop = "inputs"
  THEN [loop |-> "inputs", at |-> st.at,
        uc |-> coins[tx.inputs[st.at]].covenant.type,
        paired |-> st.at <= Len(tx.outputs),
        output |-> IF st.at <= Len(tx.outputs) THEN tx.outputs[st.at]
                   ELSE PlainOutput,
        prevout |-> tx.inputs[st.at]]
  ELSE IF st.loop = "outputs"
  THEN [loop |-> "outputs", at |-> st.at, uc |-> NONE, paired |-> TRUE,
        output |-> tx.outputs[st.at], prevout |-> NullOutpoint]
  ELSE NoSlot

(***************************************************************************)
(* Init and the actions.                                                   *)
(***************************************************************************)
\* verifyBlock's loop, saveView and connectBlock as one function of the
\* persisted state: start states later than genesis are built with it
RECURSIVE ConnectAll(_, _, _, _, _, _, _)
ConnectAll(txs, i, height, v, bk, coins, net) ==
  IF i > Len(txs) THEN [ok |-> TRUE, view |-> v]
  ELSE CHOOSE r \in
         {IF st.res # "true" THEN [ok |-> FALSE, view |-> st.view]
          ELSE ConnectAll(txs, i + 1, height, st.view, bk, coins, net) :
            st \in {connectCovenants(txs[i], height, v, bk, coins, net)}} :
         TRUE

Genesis == [ok |-> TRUE, bucket |-> EmptyBucket, trie |-> EmptyMap,
            chain |-> <<>>]

\* the state after the block of transactions `txs` connects on `st`
AfterBlock(st, txs, net) ==
  LET Saved(done) ==
        {[ok |-> st.ok /\ done.ok /\ ~fs.fault,
          bucket |-> fs.bucket, trie |-> fs.trie,
          chain |-> Append(st.chain, [trieRoot |-> st.trie,
                                      txs |-> <<CoinbaseTx>> \o txs])] :
           fs \in {saveView([bucket |-> st.bucket, trie |-> st.trie,
                             fault |-> FALSE], done.view, 1)}}
      Connected(coins) ==
        UNION {Saved(done) :
                 done \in {ConnectAll(txs, 1, Len(st.chain) + 1, <<>>,
                                      st.bucket, coins, net)}}
  IN CHOOSE r \in UNION {Connected(coins) :
                           coins \in {CoinView(Flatten(st.chain) \o txs)}} :
       TRUE

RECURSIVE AfterBlocks(_, _, _)
AfterBlocks(st, blocks, net) ==
  IF blocks = <<>> THEN st
  ELSE CHOOSE r \in {AfterBlocks(nx, Tail(blocks), net) :
                      nx \in {AfterBlock(st, blocks[1], net)}} : TRUE

\* the validator at rest on the persisted state `st`
StartFrom(st) ==
  /\ st.ok
  /\ bucket = st.bucket
  /\ trie = st.trie
  /\ chain = st.chain
  /\ base = Len(st.chain)
  /\ pc = "idle"
  /\ cur = NoBlock
  /\ view = <<>>
  /\ ret = Ret("none", "")
  /\ used = 0
  /\ undone = 0
  /\ s0 = [bucket |-> st.bucket, trie |-> st.trie]
  /\ last = "none"
  /\ picked = <<>>

Init ==
  /\ network \in {"main", "regtest"}
  /\ StartFrom(Genesis)

\* the roots a block header may carry
TrieRoots ==
  UNION {[S -> {Blake2b(d) : d \in Data}] : S \in SUBSET NameHashes}

Height == Len(chain)

RECURSIVE SlotsIn(_)
SlotsIn(txs) == IF txs = <<>> THEN 0 ELSE Slots(txs[1]) + SlotsIn(Tail(txs))

\* verifyBlock, up to its loop: the header's root against the trie's
StartVerify ==
  /\ pc = "idle"
  /\ Height < base + MaxHeight
  /\ \E root \in TrieRoots :
       IF root # getTrieRoot
       THEN /\ pc' = "failed"
            /\ ret' = Ret("false", "L245")
            /\ cur' = [NoBlock EXCEPT !.pre = Persisted]
       ELSE /\ pc' = "verify"
            /\ ret' = Ret("none", "")
            /\ cur' = [trieRoot |-> root, txs |-> <<CoinbaseTx>>,
                       pre |-> Persisted]
  /\ view' = <<>>
  /\ last' = "none"
  /\ UNCHANGED <<network, picked, bucket, trie, chain, base, used, undone, s0>>

\* one turn of the loop that writes what the transaction did to the auctions
ConnectTxWriting ==
  /\ pc = "verify"
  /\ Len(cur.txs) <= MaxBlockTxs
  /\ used + SlotsIn(cur.txs) < MaxSlots
  /\ \E txs \in {TxsOf(chain, cur)} :
     \E coins \in {CoinView(txs)} :
     \E room \in {MaxSlots - used - SlotsIn(cur.txs)} :
     \E tx \in TxChoices(used + SlotsIn(cur.txs) + 1, coins, Unspent(txs),
                         Height + 1, room) :
     \E st \in {connectCovenants(tx, Height + 1, view, bucket, coins,
                                  network)} :
     \E fs \in {saveView([bucket |-> bucket, trie |-> trie, fault |-> FALSE],
                         st.view, 1)} :
       /\ cur' = IF st.res = "true"
                 THEN [cur EXCEPT !.txs = Append(@, tx)] ELSE cur
       /\ view' = st.view
       /\ bucket' = fs.bucket
       /\ trie' = fs.trie
       /\ ret' = [res |-> st.res, site |-> st.site,
                  slot |-> SlotOf(tx, coins, st)]
       /\ pc' = IF st.res = "true" THEN "verify" ELSE "failed"
  /\ UNCHANGED <<network, picked, chain, base, used, undone, s0, last>>

\* one turn of the loop of verifyBlock: connectCovenants on the next
\* transaction of the block
ConnectTx ==
  /\ pc = "verify"
  /\ Len(cur.txs) <= MaxBlockTxs
  /\ used + SlotsIn(cur.txs) < MaxSlots
  /\ \E txs \in {TxsOf(chain, cur)} :
     \E coins \in {CoinView(txs)} :
     \E room \in {MaxSlots - used - SlotsIn(cur.txs)} :
     \E tx \in TxChoices(used + SlotsIn(cur.txs) + 1, coins, Unspent(txs),
                         Height + 1, room) :
     \E st \in {connectCovenants(tx, Height + 1, view, bucket, coins,
                                  network)} :
       /\ cur' = IF st.res = "true"
                 THEN [cur EXCEPT !.txs = Append(@, tx)] ELSE cur
       /\ view' = st.view
       /\ ret' = [res |-> st.res, site |-> st.site,
                  slot |-> SlotOf(tx, coins, st)]
       /\ pc' = IF st.res = "true" THEN "verify" ELSE "failed"
  /\ UNCHANGED <<network, picked, bucket, trie, chain, base, used, undone, s0,
                 last>>

\* a block that failed is dropped with its view
Reject ==
  /\ pc = "failed"
  /\ pc' = "idle"
  /\ cur' = NoBlock
  /\ view' = <<>>
  /\ ret' = Ret("none", "")
  /\ UNCHANGED <<network, picked, bucket, trie, chain, base, used, undone, s0, last>>

\* the flush of a view: saveView(batch, view) and the write of the batch
Flush(v) == saveView([bucket |-> bucket, trie |-> trie, fault |-> FALSE], v, 1)

\* verifyBlock returned true: saveView(batch, view), connectBlock(batch,
\* block) and the write of the batch; the block joins the chain
SaveViewConnect ==
  /\ pc = "verify"
  /\ \E fs \in {Flush(view)} :
       /\ ~fs.fault
       /\ bucket' = fs.bucket
       /\ trie' = fs.trie
  /\ chain' = Append(chain, [trieRoot |-> cur.trieRoot, txs |-> cur.txs])
  /\ used' = used + SlotsIn(cur.txs)
  /\ s0' = cur.pre
  /\ last' = "connected"
  /\ pc' = "idle"
  /\ cur' = NoBlock
  /\ view' = <<>>
  /\ ret' = Ret("none", "")
  /\ UNCHANGED <<network, picked, base, undone>>

\* disconnectBlock(entry, block, view) on the tip
DisconnectBlock ==
  /\ pc = "idle"
  /\ chain # <<>>
  /\ undone < MaxDisconnects
  /\ \E block \in {chain[Len(chain)]} :
     \E coins \in {CoinView(Flatten(chain))} :
     \E st \in {disconnectBlock(block.txs, Height, 2, <<>>, bucket, coins)} :
       /\ cur' = [trieRoot |-> block.trieRoot, txs |-> block.txs,
                  pre |-> Persisted]
       /\ view' = st.view
       /\ ret' = Ret(st.res, st.site)
  /\ pc' = "disconnected"
  /\ undone' = undone + 1
  /\ last' = IF last = "connected" THEN "undoing" ELSE "none"
  /\ UNCHANGED <<network, picked, bucket, trie, chain, base, used, s0>>

\* disconnectBlock returned: saveView(batch, view) and the write of the
\* batch; the tip leaves the chain.  A fault of the flush drops the batch
\* and leaves in the trie what the ops before it did.
SaveViewDisconnect ==
  /\ pc = "disconnected"
  /\ ret.res = "ok"
  /\ \E fs \in {Flush(view)} :
       /\ trie' = fs.trie
       /\ bucket' = IF fs.fault THEN bucket ELSE fs.bucket
       /\ chain' = IF fs.fault THEN chain
                   ELSE SubSeq(chain, 1, Len(chain) - 1)
       /\ last' = IF last # "undoing" THEN "none"
                  ELSE IF fs.fault THEN "stuck" ELSE "undone"
  /\ pc' = "idle"
  /\ cur' = NoBlock
  /\ view' = <<>>
  /\ ret' = Ret("none", "")
  /\ UNCHANGED <<network, picked, base, used, undone, s0>>

\* a fault while disconnecting: the reorganization is given up
Abort ==
  /\ pc = "disconnected"
  /\ ret.res = "fault"
  /\ last' = IF last = "undoing" THEN "stuck" ELSE "none"
  /\ pc' = "idle"
  /\ cur' = NoBlock
  /\ view' = <<>>
  /\ ret' = Ret("none", "")
  /\ UNCHANGED <<network, picked, bucket, trie, chain, base, used, undone, s0>>

Next ==
  \/ StartVerify
  \/ ConnectTx
  \/ Reject
  \/ SaveViewConnect
  \/ DisconnectBlock
  \/ SaveViewDisconnect
  \/ Abort

Spec == Init /\ [][Next]_vars

(***************************************************************************)
(* A second start: "alice" has been auctioned.  Two bids in one            *)
(* transaction at height 1, the first revealed at height 3 and turned      *)
(* into the name's first record at height 4; the second bid was never      *)
(* revealed.  The transactions carry hashes above those the run hands out. *)
(***************************************************************************)
SeedHash(k) == FundingHash + k
OwnedBlocks ==
  << <<Tx(SeedHash(1), <<FundingOutpoint>>,
          <<Output(0, Covenant(BID, <<"alice">>)),
            Output(0, Covenant(BID, <<"alice">>))>>)>>,
     <<>>,
     <<Tx(SeedHash(2), <<Outpoint(SeedHash(1), 0)>>,
          <<Output(1, Covenant(REVEAL, <<"alice">>))>>)>>,
     <<Tx(SeedHash(3), <<Outpoint(SeedHash(2), 0)>>,
          <<Output(0, Covenant(UPDATE, <<"alice", "v1">>))>>)>> >>

InitOwned ==
  /\ network = "main"
  /\ \E st \in {AfterBlocks(Genesis, OwnedBlocks, network)} : StartFrom(st)

SpecOwned == InitOwned /\ [][Next]_vars

(***************************************************************************)
(* Another start: the auction of "alice" has closed and nobody has claimed *)
(* the name yet.  Two bids in one transaction at height 1, both revealed   *)
(* in one transaction at height 3, the first with the higher value.        *)
(***************************************************************************)
RevealedBlocks ==
  << <<Tx(SeedHash(1), <<FundingOutpoint>>,
          <<Output(0, Covenant(BID, <<"alice">>)),
            Output(0, Covenant(BID, <<"alice">>))>>)>>,
     <<>>,
     <<Tx(SeedHash(2), <<Outpoint(SeedHash(1), 0), Outpoint(SeedHash(1), 1)>>,
          <<Output(1, Covenant(REVEAL, <<"alice">>)),
            Output(0, Covenant(REVEAL, <<"alice">>))>>)>> >>

InitRevealed ==
  /\ network = "main"
  /\ \E st \in {AfterBlocks(Genesis, RevealedBlocks, network)} : StartFrom(st)

SpecRevealed == InitRevealed /\ [][Next]_vars

(***************************************************************************)
(* Another start: "alice" is being auctioned a second time.  Two bids at   *)
(* height 1, both revealed with the same value at height 3; the later key  *)
(* won and became the owner at height 4, the other reveal was never        *)
(* redeemed.  No renewal followed, and a BID at height 8 = renewal +       *)
(* RENEWAL_WINDOW started the auction over.                                *)
(***************************************************************************)
ReauctionedBlocks ==
  << <<Tx(SeedHash(1), <<FundingOutpoint>>,
          <<Output(0, Covenant(BID, <<"alice">>)),
            Output(0, Covenant(BID, <<"alice">>))>>)>>,
     <<>>,
     <<Tx(SeedHash(2), <<Outpoint(SeedHash(1), 0), Outpoint(SeedHash(1), 1)>>,
          <<Output(1, Covenant(REVEAL, <<"alice">>)),
            Output(1, Covenant(REVEAL, <<"alice">>))>>)>>,
     <<Tx(SeedHash(3), <<Outpoint(SeedHash(2), 1)>>,
          <<Output(0, Covenant(UPDATE, <<"alice", "v1">>))>>)>>,
     <<>>,
     <<>>,
     <<>>,
     <<Tx(SeedHash(4), <<FundingOutpoint>>,
          <<Output(0, Covenant(BID, <<"alice">>))>>)>> >>

InitReauctioned ==
  /\ network = "main"
  /\ \E st \in {AfterBlocks(Genesis, ReauctionedBlocks, network)} :
       StartFrom(st)

SpecReauctioned == InitReauctioned /\ [][Next]_vars

(***************************************************************************)
(* A third start, for pickWinner alone: the r family holds any set of at   *)
(* most MaxReveals reveal records, and pickWinner is called on it.         *)
(***************************************************************************)
RevealKeys ==
  {<<nh, h, i>> : nh \in NameHashes, h \in 1..MaxSlots, i \in 0..(MaxIO - 1)}

\* the subsets of S of at most n elements
RECURSIVE UpTo(_, _)
UpTo(S, n) ==
  IF n = 0 \/ S = {} THEN {{}}
  ELSE LET x == CHOOSE x \in S : TRUE
           rest == UpTo(S \ {x}, n)
           less == UpTo(S \ {x}, n - 1)
       IN rest \cup {T \cup {x} : T \in less}

RevealStores ==
  UNION {[keys -> {fromU64(v) : v \in 0..MaxValue}] :
         keys \in UpTo(RevealKeys, MaxReveals)}

InitWinner ==
  /\ network = "main"
  /\ \E r \in RevealStores :
       StartFrom([Genesis EXCEPT !.bucket = [EmptyBucket EXCEPT !.r = r]])

\* one call of pickWinner(nameHash)
PickWinner ==
  /\ Len(picked) < 2
  /\ \E nameHash \in NameHashes :
       picked' = Append(picked, <<nameHash, pickWinner(bucket, nameHash)>>)
  /\ UNCHANGED <<network, bucket, trie, chain, pc, cur, view, ret, base, used,
                 undone, s0, last>>

NextWinner == PickWinner

SpecWinner == InitWinner /\ [][NextWinner]_vars
(***************************************************************************)
(* Properties.                                                             *)
(***************************************************************************)
\* the auction record stored under a name hash
Stored(nameHash) == fromRaw(bucket.a[nameHash], nameHash)
\* the outpoints with a bid record, or a reveal record, under a name hash
BidsOf(nameHash) ==
  {Outpoint(key[2], key[3]) : key \in {k \in bucket.b : k[1] = nameHash}}
RevealsOf(nameHash) ==
  {Outpoint(key[2], key[3]) :
     key \in {k \in DOMAIN bucket.r : k[1] = nameHash}}
\* the output an outpoint of the chain names
OutputAt(o) == CoinView(Flatten(chain))[o]

\* C1 (rollback): once the block that was just connected has been
\* disconnected again, the KV families and the trie are what they were
\* before that block was connected.
C1_Rollback == last \in {"undone", "stuck"} => Persisted = s0

\* C2 (reverse-index bijection), as claimed: after a block has been
\* connected, every bid key and every reveal key has the reverse entry n[hash, idx] = nameHash, and every
\* reverse entry belongs to exactly one bid or reveal record.
C2_Bijection ==
  last = "connected" =>
    /\ \A nh \in NameHashes : \A o \in BidsOf(nh) \cup RevealsOf(nh) :
         Has(bucket.n, o) /\ bucket.n[o] = nh
    /\ \A o \in DOMAIN bucket.n :
         Cardinality({nh \in NameHashes : o \in BidsOf(nh)}) +
         Cardinality({nh \in NameHashes : o \in RevealsOf(nh)}) = 1
         /\ (o \in BidsOf(bucket.n[o]) \/ o \in RevealsOf(bucket.n[o]))

\* C2 (reverse-index bijection), as the code has it: at rest, every bid key
\* and every reveal key has the reverse entry n[hash, idx] = nameHash, no
\* outpoint has more than one bid or reveal record, and every reverse entry
\* of a BID or REVEAL output belongs to exactly one bid or reveal record,
\* under the name the entry gives.  The other reverse entries are those
\* ADD_OWNER wrote: of an UPDATE or TRANSFER output of that name, or of the
\* null outpoint (an entry may outlive the block of its output when that
\* block is disconnected).
C2_ReverseIndex ==
  pc = "idle" =>
    /\ \A nh \in NameHashes : \A o \in BidsOf(nh) \cup RevealsOf(nh) :
         Has(bucket.n, o) /\ bucket.n[o] = nh
    /\ \A o \in UNION {BidsOf(nh) \cup RevealsOf(nh) : nh \in NameHashes} :
         Cardinality({nh \in NameHashes : o \in BidsOf(nh)}) +
         Cardinality({nh \in NameHashes : o \in RevealsOf(nh)}) = 1
    /\ \A o \in DOMAIN bucket.n :
         IF o \in BidsOf(bucket.n[o]) \cup RevealsOf(bucket.n[o]) THEN TRUE
         ELSE IF IsNull(o) THEN TRUE
         ELSE IF o \notin CoinKeys(Flatten(chain)) THEN TRUE
         ELSE /\ OutputAt(o).covenant.type \in {UPDATE, TRANSFER}
              /\ Blake2b(OutputAt(o).covenant.items[1]) = bucket.n[o]

\* an owner's reverse entry stands beside the reverse entries of the bids
\* and reveals that are still stored
C2_OwnerEntry ==
  /\ pc = "idle"
  /\ last = "connected"
  /\ \E o \in DOMAIN bucket.n :
       /\ OutputAt(o).covenant.type = UPDATE
       /\ Stored(bucket.n[o]).owner = o
  /\ \E nh \in NameHashes : BidsOf(nh) # {}
  /\ \E nh \in NameHashes : RevealsOf(nh) # {}

\* C3 (bid counter): at rest, the stored auction's bids field is the number
\* of b keys stored under its name hash.
C3_BidCounter ==
  pc = "idle" =>
    \A nh \in DOMAIN bucket.a :
      Stored(nh).bids = Cardinality(BidsOf(nh))

\* C4 (trie agreement): right after a block has been connected, the trie's
\* root is the root its header carries.
C4_TrieAgreement ==
  last = "connected" => getTrieRoot = chain[Len(chain)].trieRoot
\* C5 (winner selection): each call of pickWinner returned null on a name
\* without reveal records, and otherwise the outpoint of a record of the
\* highest value stored under the name (0 included), the last in key order
\* among the records of that value; two calls for one name on the same
\* records returned the same outpoint.
ValueOf(nameHash, o) == toU64(bucket.r[<<nameHash, o[1], o[2]>>])
C5_Winner ==
  \A c \in 1..Len(picked) :
    LET nameHash == picked[c][1]
        w == picked[c][2]
        S == RevealsOf(nameHash)
    IN /\ S = {} => w = NoOutpoint
       /\ S # {} =>
            /\ w \in S
            /\ \A o \in S : ValueOf(nameHash, o) <= ValueOf(nameHash, w)
            /\ \A o \in S \ {w} :
                 ValueOf(nameHash, o) = ValueOf(nameHash, w)
                   => o[1] < w[1] \/ (o[1] = w[1] /\ o[2] < w[2])
       /\ \A d \in 1..Len(picked) : picked[d][1] = nameHash => picked[d][2] = w

\* pickWinner was called twice on a name whose highest value is 0 and is
\* held by two records, beside another name's records
C5_TiedAtZero ==
  /\ Len(picked) = 2
  /\ picked[1][1] = picked[2][1]
  /\ Cardinality(RevealsOf(picked[1][1])) >= 2
  /\ \A o \in RevealsOf(picked[1][1]) : ValueOf(picked[1][1], o) = 0
  /\ picked[1][2] \in RevealsOf(picked[1][1])
  /\ \E nh \in NameHashes \ {picked[1][1]} : RevealsOf(nh) # {}

\* C6 (rollout gate): on the main network no accepted transaction has a
\* BID output of a name whose start (nameHash[0] mod 52) * ROLLOUT_INTERVAL
\* is above the block's height, and connectCovenants returns false at the
\* gate when it comes to such an output; it returns at the gate for no
\* other BID output: not at height = start, and on no other network.
StartOf(name) == (Byte0(Blake2b(name)) % 52) * ROLLOUT_INTERVAL
BidBelowStart(txs, height) ==
  \E t \in 1..Len(txs) : \E i \in 1..Len(txs[t].outputs) :
    /\ txs[t].outputs[i].covenant.type = BID
    /\ height < StartOf(txs[t].outputs[i].covenant.items[1])
C6_RolloutGate ==
  /\ network = "main" =>
       /\ \A h \in 1..Len(chain) : ~BidBelowStart(chain[h].txs, h)
       /\ pc = "verify" => ~BidBelowStart(cur.txs, Height + 1)
  /\ (/\ pc = "failed"
      /\ ret.slot.loop = "outputs"
      /\ ret.slot.output.covenant.type = BID) =>
       LET closed == /\ network = "main"
                     /\ Height + 1 < StartOf(ret.slot.output.covenant.items[1])
       IN /\ closed => ret.res = "false" /\ ret.site = "L537"
          /\ ret.site = "L537" => closed

\* the gate turned a BID away one block below its name's start, in a block
\* that had already taken a transaction
C6_TurnedAway ==
  /\ network = "main"
  /\ pc = "failed"
  /\ ret.res = "false"
  /\ ret.site = "L537"
  /\ Height + 1 = StartOf(ret.slot.output.covenant.items[1]) - 1
  /\ Len(cur.txs) > 1

\* C7 (illegal transitions): when connectCovenants stops at an input whose
\* prior covenant and paired output are no row of the transition table (or
\* that has a covenant and no output at its index), it returns false.
LegalPairs ==
  {<<BID, REVEAL>>, <<REVEAL, REDEEM>>, <<REVEAL, UPDATE>>,
   <<REVEAL, TRANSFER>>, <<REVEAL, RELEASE>>, <<UPDATE, UPDATE>>,
   <<UPDATE, TRANSFER>>, <<UPDATE, RELEASE>>, <<TRANSFER, UPDATE>>,
   <<TRANSFER, RELEASE>>}
IllegalSlot(slot) ==
  /\ slot.loop = "inputs"
  /\ slot.uc \in BID..MAX_COVENANT_TYPE
  /\ \/ ~slot.paired
     \/ <<slot.uc, slot.output.covenant.type>> \notin LegalPairs
C7_IllegalReturnsFalse ==
  (pc = "failed" /\ IllegalSlot(ret.slot)) => ret.res = "false"

\* C8 (no partial persistence): while a block is in hand, verified so far,
\* failed or disconnected and not yet flushed, the KV families and the trie
\* are what they were before the block.
C8_NoPartialPersistence ==
  pc \in {"verify", "failed", "disconnected"} => Persisted = cur.pre

\* connectCovenants returned false at the second input of a transaction
\* whose first input had changed an auction of the view
C8_FalseAfterChange ==
  /\ pc = "failed"
  /\ ret.res = "false"
  /\ ret.slot.loop = "inputs"
  /\ ret.slot.at = 2
  /\ \E j \in 1..Len(view) : view[j].ops # <<>>
  /\ Flush(view).bucket # bucket
  /\ Flush(view).trie # trie
\* C9 (renewal validation): an UPDATE -> UPDATE by the owner of a closed
\* auction whose output carries a third item is accepted exactly when the
\* block the item names is known, on the main chain, and of a height from
\* height - RENEWAL_PERIOD to height - COINBASE_MATURITY; without a third
\* item no renewal check turns it away (nothing does).
RenewalSites == {"L437", "L441", "L445", "L450"}
\* where an UPDATE input stops that is not the owner's, of a closed auction
OwnerSites == {"L416", "L419", "L423"}
Renewable(entry, height) ==
  /\ entry.known
  /\ entry.main
  /\ entry.height <= height - COINBASE_MATURITY
  /\ entry.height >= height - RENEWAL_PERIOD
\* input i of tx spends an UPDATE and is paired with an UPDATE of 3 items
IsRenewal(tx, i, coins) ==
  /\ coins[tx.inputs[i]].covenant.type = UPDATE
  /\ i <= Len(tx.outputs)
  /\ tx.outputs[i].covenant.type = UPDATE
  /\ Len(tx.outputs[i].covenant.items) = 3
RenewalsAccepted(txs, height, coins) ==
  \A t \in 1..Len(txs) : \A i \in 1..Len(txs[t].inputs) :
    IsRenewal(txs[t], i, coins)
      => Renewable(txs[t].outputs[i].covenant.items[3], height)
C9_RenewalValidation ==
  /\ \A h \in (base + 1)..Len(chain) :
       RenewalsAccepted(chain[h].txs, h, CoinView(Flatten(chain)))
  /\ pc = "verify" =>
       RenewalsAccepted(cur.txs, Height + 1, CoinView(TxsOf(chain, cur)))
  /\ (/\ pc = "failed"
      /\ ret.slot.loop = "inputs"
      /\ ret.slot.uc = UPDATE
      /\ ret.slot.paired
      /\ ret.slot.output.covenant.type = UPDATE
      /\ ret.site \notin OwnerSites) =>
       LET items == ret.slot.output.covenant.items IN
       /\ Len(items) = 3
       /\ ~Renewable(items[3], Height + 1)
       /\ ret.res = "false"
       /\ ret.site \in RenewalSites

\* a renewal naming the block at height - COINBASE_MATURITY + 1 was turned
\* away, on a chain that took a renewal naming the block at its
\* height - COINBASE_MATURITY
C9_AtTheBounds ==
  /\ pc = "failed"
  /\ ret.res = "false"
  /\ ret.site = "L445"
  /\ ret.slot.output.covenant.items[3] =
       BlockRef(TRUE, TRUE, Height + 1 - COINBASE_MATURITY + 1)
  /\ \E h \in (base + 1)..Len(chain) :
       \E t \in 1..Len(chain[h].txs) : \E i \in 1..Len(chain[h].txs[t].inputs) :
         /\ IsRenewal(chain[h].txs[t], i, CoinView(Flatten(chain)))
         /\ chain[h].txs[t].outputs[i].covenant.items[3] =
              BlockRef(TRUE, TRUE, h - COINBASE_MATURITY)

\* C10 (renewal effect): right after a block at height H with an accepted
\* renewal has been connected, k[prevout] holds the renewal height the
\* auction had before the block, and the auction's renewal field is H.
C10_RenewalEffect ==
  last = "connected" =>
    LET H == Len(chain)
        txs == chain[H].txs
        coins == CoinView(Flatten(chain))
    IN \A t \in 1..Len(txs) : \A i \in 1..Len(txs[t].inputs) :
         IsRenewal(txs[t], i, coins) =>
           LET prevout == txs[t].inputs[i]
               nameHash == s0.bucket.n[prevout]
               R == fromRaw(s0.bucket.a[nameHash], nameHash).renewal
           IN /\ Has(bucket.k, prevout)
              /\ getUndoRenewal(bucket, prevout) = R
              /\ Stored(nameHash).renewal = H

\* a renewal was connected at a height above the auction's renewal height
C10_Renewed ==
  /\ last = "connected"
  /\ \E t \in 1..Len(chain[Len(chain)].txs) :
       \E i \in 1..Len(chain[Len(chain)].txs[t].inputs) :
         /\ IsRenewal(chain[Len(chain)].txs[t], i, CoinView(Flatten(chain)))
         /\ Has(bucket.k, chain[Len(chain)].txs[t].inputs[i])
         /\ getUndoRenewal(bucket, chain[Len(chain)].txs[t].inputs[i])
              < Len(chain)
         /\ getUndoRenewal(bucket, chain[Len(chain)].txs[t].inputs[i]) > 0

\* the auction record a persisted state holds under a name hash
StoredIn(st, nameHash) == fromRaw(st.bucket.a[nameHash], nameHash)
\* the non-coinbase transactions of a block
Body(txs) == SelectSeq(txs, LAMBDA t : ~t.coinbase)
\* the BID outputs of a block on a name: <<transaction, output>> positions
BidSlots(txs, nameHash) ==
  {p \in UNION {{<<t, i>> : i \in 1..Len(txs[t].outputs)} : t \in 1..Len(txs)} :
     /\ txs[p[1]].outputs[p[2]].covenant.type = BID
     /\ Blake2b(txs[p[1]].outputs[p[2]].covenant.items[1]) = nameHash}
FirstSlot(S) ==
  CHOOSE p \in S : \A q \in S \ {p} : p[1] < q[1] \/ (p[1] = q[1] /\ p[2] < q[2])

\* C11 (stale re-auction): a BID output on a name whose stored auction has
\* height >= renewal + RENEWAL_WINDOW is never turned away past the rollout
\* gate, whether the auction has an owner or not; once its block is
\* connected the prior auction is stored under (txHash, i | 0x80000000),
\* the auction has no owner, height and renewal are the block's height,
\* bids counts the block's bids and the trie has no entry; a BID on an
\* auction that is not stale resets nothing.
C11_StaleReauction ==
  /\ (/\ pc = "failed"
      /\ ret.slot.loop = "outputs"
      /\ ret.slot.output.covenant.type = BID
      /\ ret.site # "L537") =>
       LET nameHash == Blake2b(ret.slot.output.covenant.items[1]) IN
       ~IsStale(view[Find(view, nameHash)], Height + 1)
  /\ last = "connected" =>
       LET H == Len(chain)
           txs == Body(chain[H].txs)
       IN \A nameHash \in DOMAIN s0.bucket.a :
            BidSlots(txs, nameHash) # {} =>
              LET p == FirstSlot(BidSlots(txs, nameHash))
                  undo == Outpoint(txs[p[1]].hash, Synthetic(p[2] - 1))
                  prior == StoredIn(s0, nameHash)
              IN IF IsStale(prior, H)
                 THEN /\ Has(bucket.u, undo)
                      /\ bucket.u[undo].height = prior.height
                      /\ bucket.u[undo].renewal = prior.renewal
                      /\ IsNull(Stored(nameHash).owner)
                      /\ Stored(nameHash).height = H
                      /\ Stored(nameHash).renewal = H
                      /\ Stored(nameHash).bids =
                           Cardinality(BidSlots(txs, nameHash))
                      /\ ~Has(trie, nameHash)
                 ELSE /\ ~Has(bucket.u, undo)
                      /\ Stored(nameHash).height = prior.height
                      /\ Stored(nameHash).renewal = prior.renewal

\* the name hash of the covenant of a coin
NameHashOf(coin) == Blake2b(coin.covenant.items[1])
\* the inputs of a block: <<transaction, input>> positions, in block order
InputSlots(txs) ==
  UNION {{<<t, i>> : i \in 1..Len(txs[t].inputs)} : t \in 1..Len(txs)}
Later(p, q) == p[1] < q[1] \/ (p[1] = q[1] /\ p[2] < q[2])
\* input p of the block spends a coin of covenant type `from` into an output
\* of covenant type `to`
Spends(txs, coins, p, from, to) ==
  /\ coins[txs[p[1]].inputs[p[2]]].covenant.type = from
  /\ p[2] <= Len(txs[p[1]].outputs)
  /\ txs[p[1]].outputs[p[2]].covenant.type = to
\* no input after p in the block spends a coin of the same name
LastOnName(txs, coins, p) ==
  \A q \in InputSlots(txs) :
    (Later(p, q) /\ coins[txs[q[1]].inputs[q[2]]].covenant.type
                     \in BID..MAX_COVENANT_TYPE)
      => NameHashOf(coins[txs[q[1]].inputs[q[2]]])
           # NameHashOf(coins[txs[p[1]].inputs[p[2]]])

C13_RenewalBounds ==
  \A nameHash \in DOMAIN bucket.a :
    /\ Stored(nameHash).height <= Stored(nameHash).renewal
    /\ Stored(nameHash).renewal <= Stored(nameHash).height + RENEWAL_WINDOW

\* the auction of the view that the reverse index gives for an outpoint
ViewAuctionFor(prevout) == view[Find(view, bucket.n[prevout])]
\* the phase checks of the input loop, by prior covenant
ClosedSites == {"L338", "L419", "L487"}

\* C14 (phase gating): a BID -> REVEAL is accepted only while the auction
\* is in BIDDING or REVEAL, a spend of a REVEAL, UPDATE or TRANSFER only
\* while it is CLOSED, a BID output only while it is BIDDING (after any
\* stale reset); when the auction of an input or of a BID output is in
\* another phase the call returns false at the phase check, and nothing
\* of the block is persisted.
C14_PhaseGating ==
  /\ (pc = "verify" /\ Len(cur.txs) > 1) =>
       LET tx == cur.txs[Len(cur.txs)]
           coins == CoinView(TxsOf(chain, cur))
           H == Height + 1
           Rebid(nameHash) ==
             \E i \in 1..Len(tx.outputs) :
               /\ tx.outputs[i].covenant.type = BID
               /\ Blake2b(tx.outputs[i].covenant.items[1]) = nameHash
       IN /\ \A i \in 1..Len(tx.inputs) :
               LET uc == coins[tx.inputs[i]].covenant.type IN
               /\ uc = BID =>
                    AuctionState(ViewAuctionFor(tx.inputs[i]), H) <= REVEALING
               /\ (uc \in {REVEAL, UPDATE, TRANSFER}
                     /\ ~Rebid(bucket.n[tx.inputs[i]])) =>
                    AuctionState(ViewAuctionFor(tx.inputs[i]), H) = CLOSED
          /\ \A i \in 1..Len(tx.outputs) :
               tx.outputs[i].covenant.type = BID =>
                 AuctionState(
                   view[Find(view, Blake2b(tx.outputs[i].covenant.items[1]))],
                   H) = BIDDING
  /\ (/\ pc = "failed"
      /\ ret.slot.loop = "inputs"
      /\ ret.slot.paired
      /\ ret.slot.uc \in {BID, REVEAL, UPDATE, TRANSFER}
      /\ Has(bucket.n, ret.slot.prevout)
      /\ Find(view, bucket.n[ret.slot.prevout]) > 0) =>
       LET phase == AuctionState(ViewAuctionFor(ret.slot.prevout), Height + 1)
           wrong == IF ret.slot.uc = BID THEN phase > REVEALING
                    ELSE phase # CLOSED
           sites == IF ret.slot.uc = BID THEN {"L312"} ELSE ClosedSites
       IN /\ wrong => ret.res = "false" /\ ret.site \in sites
          /\ ret.site \in sites => wrong
  /\ (/\ pc = "failed"
      /\ ret.slot.loop = "outputs"
      /\ ret.slot.output.covenant.type = BID
      /\ ret.site \notin {"L537", "L548"}) =>
       /\ ret.res = "false"
       /\ ret.site = "L558"
       /\ AuctionState(
            view[Find(view, Blake2b(ret.slot.output.covenant.items[1]))],
            Height + 1) # BIDDING
  /\ pc = "failed" => Persisted = cur.pre

\* a reveal of a bid was turned away because the auction had closed, in a
\* run that had taken a reveal during the reveal phase
C14_TooLate ==
  /\ pc = "failed"
  /\ ret.res = "false"
  /\ ret.site = "L312"
  /\ AuctionState(ViewAuctionFor(ret.slot.prevout), Height + 1) = CLOSED
  /\ \E h \in (base + 1)..Len(chain) :
       \E p \in InputSlots(Body(chain[h].txs)) :
         Spends(Body(chain[h].txs), CoinView(Flatten(chain)), p, BID, REVEAL)

\* the winner connectCovenants holds a REVEAL input against: the owner of
\* the auction of the view, or pickWinner's result while there is none
WinnerFor(auction) ==
  IF IsNull(auction.owner) THEN pickWinner(bucket, auction.nameHash)
  ELSE auction.owner
\* where a REVEAL input stops when it is, or is not, the winner
LoserSites == {"L360", "L378", "L395"}
\* the REVEAL outputs of a name in the blocks from height `from` on, and
\* those of them that were spent into an UPDATE or TRANSFER (an owner)
RevealsSince(nameHash, from) ==
  {o \in CoinKeys(Flatten(chain)) :
     /\ OutputAt(o).covenant.type = REVEAL
     /\ NameHashOf(OutputAt(o)) = nameHash
     /\ \E h \in from..Len(chain) : \E t \in 1..Len(chain[h].txs) :
          chain[h].txs[t].hash = o[1]}
MadeOwner(nameHash, from) ==
  {o \in RevealsSince(nameHash, from) :
     \E h \in from..Len(chain) :
       \E p \in InputSlots(Body(chain[h].txs)) :
         /\ Body(chain[h].txs)[p[1]].inputs[p[2]] = o
         /\ \/ Spends(Body(chain[h].txs), CoinView(Flatten(chain)), p,
                       REVEAL, UPDATE)
            \/ Spends(Body(chain[h].txs), CoinView(Flatten(chain)), p,
                       REVEAL, TRANSFER)}

\* C15 (winner exclusivity): a REVEAL input of a closed auction is turned
\* away as REDEEM exactly when it is the winner (the owner, or pickWinner's
\* result while there is no owner) and as UPDATE, TRANSFER or RELEASE
\* exactly when it is not; and of the reveals made since the auction's
\* height at most one was ever made the owner, one of the highest value.
C15_WinnerExclusive ==
  /\ (/\ pc = "failed"
      /\ ret.slot.loop = "inputs"
      /\ ret.slot.uc = REVEAL
      /\ ret.slot.paired
      /\ ret.slot.output.covenant.type \in {REDEEM, UPDATE, TRANSFER, RELEASE}
      /\ Has(bucket.n, ret.slot.prevout)
      /\ Find(view, bucket.n[ret.slot.prevout]) > 0
      /\ ret.site # "L338") =>
       LET winner == WinnerFor(ViewAuctionFor(ret.slot.prevout)) IN
       /\ ret.res = "false"
       /\ IF ret.slot.output.covenant.type = REDEEM
          THEN ret.site = "L351" /\ ret.slot.prevout = winner
          ELSE ret.site \in LoserSites /\ ret.slot.prevout # winner
  /\ pc = "idle" =>
       \A nameHash \in DOMAIN bucket.a :
         LET from == Stored(nameHash).height IN
         /\ Cardinality(MadeOwner(nameHash, from)) <= 1
         /\ \A o \in MadeOwner(nameHash, from) :
              \A r \in RevealsSince(nameHash, from) :
                OutputAt(r).value <= OutputAt(o).value

\* C16 (BID -> REVEAL and back): right after a block with a BID -> REVEAL
\* is connected the bid record of prevout is gone and the reveal record of
\* outpoint holds the output's value; when that block is disconnected again
\* the call completes and its flush removes the reveal record and n entry
\* of outpoint and puts back b[nameHash, prevout], n[prevout] and the
\* auction's bids count of before the block.
C16_RevealInverse ==
  /\ last = "connected" =>
       LET txs == Body(chain[Len(chain)].txs)
           coins == CoinView(Flatten(chain))
       IN \A p \in InputSlots(txs) :
            Spends(txs, coins, p, BID, REVEAL) =>
              LET prevout == txs[p[1]].inputs[p[2]]
                  outpoint == Outpoint(txs[p[1]].hash, p[2] - 1)
                  nameHash == s0.bucket.n[prevout]
              IN /\ <<nameHash, prevout[1], prevout[2]>> \notin bucket.b
                 /\ Has(bucket.r, <<nameHash, outpoint[1], outpoint[2]>>)
                 /\ toU64(bucket.r[<<nameHash, outpoint[1], outpoint[2]>>])
                      = txs[p[1]].outputs[p[2]].value
  /\ (pc = "disconnected" /\ last = "undoing") =>
       LET txs == Body(cur.txs)
           coins == CoinView(Flatten(chain))
       IN \A p \in InputSlots(txs) :
            Spends(txs, coins, p, BID, REVEAL) =>
              LET prevout == txs[p[1]].inputs[p[2]]
                  outpoint == Outpoint(txs[p[1]].hash, p[2] - 1)
                  nameHash == s0.bucket.n[prevout]
                  after == Flush(view).bucket
              IN /\ ret.res = "ok"
                 /\ ~Has(after.r, <<nameHash, outpoint[1], outpoint[2]>>)
                 /\ ~Has(after.n, outpoint)
                 /\ <<nameHash, prevout[1], prevout[2]>> \in after.b
                 /\ Has(after.n, prevout)
                 /\ after.n[prevout] = nameHash
                 /\ Has(after.a, nameHash)
                 /\ after.a[nameHash].bids = s0.bucket.a[nameHash].bids

\* C17 (TRANSFER rows are invertible): when a block that was just
\* connected with a TRANSFER -> UPDATE or TRANSFER -> RELEASE input is
\* disconnected, the call completes without a fault and its flush leaves
\* the auction owned by prevout, the trie entry of the name as it was
\* before the block, and (for RELEASE) no undo record u[prevout].
C17_TransferInverse ==
  (pc = "disconnected" /\ last = "undoing") =>
    LET txs == Body(cur.txs)
        coins == CoinView(Flatten(chain))
    IN \A p \in InputSlots(txs) :
         (\/ Spends(txs, coins, p, TRANSFER, UPDATE)
          \/ Spends(txs, coins, p, TRANSFER, RELEASE)) =>
           LET prevout == txs[p[1]].inputs[p[2]]
               nameHash == s0.bucket.n[prevout]
               after == Flush(view)
           IN /\ ret.res = "ok"
              /\ ~after.fault
              /\ Has(after.bucket.a, nameHash)
              /\ after.bucket.a[nameHash].owner = prevout
              /\ Has(after.trie, nameHash) = Has(s0.trie, nameHash)
              /\ Has(s0.trie, nameHash) =>
                   after.trie[nameHash] = s0.trie[nameHash]
              /\ ~Has(after.bucket.u, prevout)

\* the view logs the removal of the renewal record of an outpoint
LogsRemoveRenewal(prevout) ==
  \E j \in 1..Len(view) : \E x \in 1..Len(view[j].ops) :
    view[j].ops[x] = Op("REMOVE_RENEWAL", <<prevout>>)

\* C18 (renewal undo symmetry): when a block that was just connected with
\* an UPDATE -> UPDATE input is disconnected, the call completes; if the
\* spending output carries the third item (so connect recorded k[prevout])
\* the flush removes k[prevout] and restores the auction's renewal of
\* before the block; if it does not, no removal of a k record is logged,
\* the k family stays as it is and so does the auction's renewal.
C18_RenewalUndo ==
  (pc = "disconnected" /\ last = "undoing") =>
    LET txs == Body(cur.txs)
        coins == CoinView(Flatten(chain))
    IN \A p \in InputSlots(txs) :
         Spends(txs, coins, p, UPDATE, UPDATE) =>
           LET prevout == txs[p[1]].inputs[p[2]]
               nameHash == s0.bucket.n[prevout]
               after == Flush(view).bucket
           IN /\ ret.res = "ok"
              /\ Has(after.a, nameHash)
              /\ IF Len(txs[p[1]].outputs[p[2]].covenant.items) = 3
                 THEN /\ LogsRemoveRenewal(prevout)
                      /\ ~Has(after.k, prevout)
                      /\ after.a[nameHash].renewal =
                           s0.bucket.a[nameHash].renewal
                 ELSE /\ ~LogsRemoveRenewal(prevout)
                      /\ after.k = bucket.k
                      /\ after.a[nameHash].renewal =
                           bucket.a[nameHash].renewal

\* the winner for an auction of the view, had the view been flushed by
\* saveView before the lookup
WinnerOnceFlushed(auction) ==
  IF IsNull(auction.owner)
  THEN pickWinner(Flush(view).bucket, auction.nameHash)
  ELSE auction.owner

\* C19 (view coherence): whenever connectCovenants turns the first input
\* of a transaction, a REVEAL, away at a winner check, the winner it held
\* the input against is the winner it would have found had the effects of
\* the block's earlier transactions (the view) been flushed first: the input is turned away as REDEEM only when
\* it is that winner, as UPDATE, TRANSFER or RELEASE only when it is not.
C19_ViewCoherence ==
  (/\ pc = "failed"
   /\ ret.slot.loop = "inputs"
   /\ ret.slot.at = 1
   /\ ret.slot.uc = REVEAL
   /\ ret.site \in {"L351"} \cup LoserSites) =>
    LET auction == ViewAuctionFor(ret.slot.prevout) IN
    /\ WinnerFor(auction) = WinnerOnceFlushed(auction)
    /\ ret.site = "L351" => ret.slot.prevout = WinnerOnceFlushed(auction)
    /\ ret.site \in LoserSites =>
         ret.slot.prevout # WinnerOnceFlushed(auction)

\* C20 (epoch isolation of the winner): for an auction without owner that
\* has reveals made since its height, pickWinner returns one of them; a
\* REVEAL -> UPDATE of the reveal that alone holds the highest value made
\* since the auction's height is never turned away for not being the
\* winner; and every reveal made the owner since the auction's height was
\* itself made since then.
C20_EpochIsolation ==
  /\ pc = "idle" =>
       \A nameHash \in DOMAIN bucket.a :
         LET from == Stored(nameHash).height IN
         /\ (/\ IsNull(Stored(nameHash).owner)
             /\ RevealsOf(nameHash) \cap RevealsSince(nameHash, from) # {}) =>
              pickWinner(bucket, nameHash) \in RevealsSince(nameHash, from)
         /\ \A h \in from..Len(chain) :
              \A p \in InputSlots(Body(chain[h].txs)) :
                (/\ \/ Spends(Body(chain[h].txs), CoinView(Flatten(chain)),
                               p, REVEAL, UPDATE)
                    \/ Spends(Body(chain[h].txs), CoinView(Flatten(chain)),
                               p, REVEAL, TRANSFER)
                 /\ NameHashOf(OutputAt(Body(chain[h].txs)[p[1]].inputs[p[2]]))
                      = nameHash) =>
                  Body(chain[h].txs)[p[1]].inputs[p[2]]
                    \in RevealsSince(nameHash, from)
  /\ (/\ pc = "failed"
      /\ ret.slot.loop = "inputs"
      /\ ret.slot.uc = REVEAL
      /\ ret.slot.paired
      /\ ret.slot.output.covenant.type = UPDATE
      /\ Has(bucket.n, ret.slot.prevout)
      /\ Find(view, bucket.n[ret.slot.prevout]) > 0) =>
       LET auction == ViewAuctionFor(ret.slot.prevout)
           made == RevealsSince(auction.nameHash, auction.height)
       IN (/\ IsNull(auction.owner)
           /\ ret.slot.prevout \in made
           /\ \A r \in made \ {ret.slot.prevout} :
                OutputAt(r).value < OutputAt(ret.slot.prevout).value) =>
            ret.site # "L360"

\* the unspent UPDATE and TRANSFER outputs of a name in the chain
NameOutputs(nameHash) ==
  {o \in Unspent(Flatten(chain)) \ {FundingOutpoint, FutureOutpoint} :
     /\ OutputAt(o).covenant.type \in {UPDATE, TRANSFER}
     /\ NameHashOf(OutputAt(o)) = nameHash}

\* C21 (owner tracks the latest name output): between blocks an owner
\* that is not null is the unspent UPDATE or TRANSFER output of its name;
\* an accepted UPDATE -> UPDATE (in a transaction without a bid on the
\* name) leaves the new outpoint as owner and logs no undo for the spent
\* one; and the spend of an unspent TRANSFER output
\* of a closed, owned name into an UPDATE or RELEASE is not stopped at
\* the lookup of its auction or at the owner check.
C21_OwnerTracksOutput ==
  /\ pc = "idle" =>
       \A nameHash \in DOMAIN bucket.a :
         ~IsNull(Stored(nameHash).owner) =>
           NameOutputs(nameHash) = {Stored(nameHash).owner}
  /\ (pc = "verify" /\ Len(cur.txs) > 1) =>
       LET tx == cur.txs[Len(cur.txs)]
           coins == CoinView(TxsOf(chain, cur))
       IN \A i \in 1..Len(tx.inputs) :
            (/\ Spends(<<tx>>, coins, <<1, i>>, UPDATE, UPDATE)
             /\ BidSlots(<<tx>>, bucket.n[tx.inputs[i]]) = {}) =>
              LET auction == ViewAuctionFor(tx.inputs[i]) IN
              /\ auction.owner = Outpoint(tx.hash, i - 1)
              /\ \A k \in 1..Len(auction.ops) :
                   auction.ops[k].type = "ADD_UNDO" =>
                     auction.ops[k].params[1] # tx.inputs[i]
  /\ (/\ pc = "failed"
      /\ ret.slot.loop = "inputs"
      /\ ret.slot.uc = TRANSFER
      /\ ret.slot.paired
      /\ ret.slot.output.covenant.type \in {UPDATE, RELEASE}
      /\ ret.slot.prevout \in CoinKeys(Flatten(chain))
      /\ ret.slot.prevout \in
           NameOutputs(NameHashOf(OutputAt(ret.slot.prevout)))
      /\ Has(cur.pre.bucket.a, NameHashOf(OutputAt(ret.slot.prevout)))) =>
       LET auction ==
             StoredIn(cur.pre, NameHashOf(OutputAt(ret.slot.prevout)))
       IN (/\ ~IsNull(auction.owner)
           /\ AuctionState(auction, Height + 1) = CLOSED
           /\ \A t \in 1..Len(cur.txs) : \A i \in 1..Len(cur.txs[t].inputs) :
                LET coin == CoinView(TxsOf(chain, cur))[cur.txs[t].inputs[i]]
                IN coin.covenant.type \in BID..MAX_COVENANT_TYPE =>
                     NameHashOf(coin) # auction.nameHash) =>
            ret.site \notin {"L484", "L491"}

\* the names a block bids on, and the outpoints of its bids on a name
BidNames(txs) ==
  {nameHash \in NameHashes : BidSlots(txs, nameHash) # {}}
BidOutpoints(txs, nameHash) ==
  {Outpoint(txs[p[1]].hash, p[2] - 1) : p \in BidSlots(txs, nameHash)}
\* the undo records the block's bids on a name left under their synthetic
\* outpoints
BidUndos(txs, nameHash) ==
  {o \in {Outpoint(txs[p[1]].hash, Synthetic(p[2] - 1)) :
            p \in BidSlots(txs, nameHash)} : Has(bucket.u, o)}

\* C22 (disconnect of accepted bids): when the tip, a block whose inputs
\* carry no covenant, is disconnected at its height, the call does not
\* stop at the assertions of the BID arm; its flush removes the bid
\* record and the n entry of every BID output of the block; the auction
\* of a name the block bid on is deleted exactly when no bid remains and
\* none of the block's bids left an undo record, and with such a record
\* it is restored to the record's owner, height, renewal and bids and
\* the record is removed.
C22_BidDisconnect ==
  (/\ pc = "disconnected"
   /\ \A p \in InputSlots(Body(cur.txs)) :
        CoinView(Flatten(chain))[Body(cur.txs)[p[1]].inputs[p[2]]]
          .covenant.type = NONE) =>
    /\ ret.site \notin {"L593", "L594"}
    /\ ret.res = "ok" =>
         LET txs == Body(cur.txs)
             after == Flush(view).bucket
         IN \A nameHash \in BidNames(txs) :
              /\ \A o \in BidOutpoints(txs, nameHash) :
                   /\ <<nameHash, o[1], o[2]>> \notin after.b
                   /\ ~Has(after.n, o)
              /\ Has(after.a, nameHash) <=>
                   \/ Stored(nameHash).bids
                        > Cardinality(BidOutpoints(txs, nameHash))
                   \/ BidUndos(txs, nameHash) # {}
              /\ \A u \in BidUndos(txs, nameHash) :
                   /\ Has(after.a, nameHash)
                   /\ after.a[nameHash] = bucket.u[u]
                   /\ ~Has(after.u, u)
====
